---------------------------- MODULE Spec2Model ----------------------------
(***************************************************************************)
(* Model of the deduplication and admission pipeline of                    *)
(* telegram-summary-bot: the SQLite store (app/storage.py), the rule-based *)
(* importance boost (app/rules.py), the per-message handler handle_message *)
(* and the polling loop poll_messages (app/run.py).                        *)
(*                                                                         *)
(* Texts are sequences of words joined by single blanks.  Every regular    *)
(* expression of the source is modelled by the set of vocabulary words it  *)
(* matches; the tables below were computed with the source's own patterns. *)
(* Words written in Hangul in the source's enrichment wrappers are written *)
(* here as ASCII place-holders of the same length.                         *)
(***************************************************************************)
EXTENDS Integers, Sequences, FiniteSets, TLC

VARIABLES
    store,      \* rows of the messages table, keyed by (chat_id, message_id)
    now,        \* int(datetime.utcnow().timestamp())
    settings,   \* the Settings read at start-up
    q,          \* SpecStore: the last duplicate check made against the store
    rule,       \* SpecRules: one application of boost_importance_for_events
    chat_filters,       \* the list of monitored channel ids
    channel_cache,      \* channel_cache: the state of each channel's entry
    last,               \* what the last handled message led to
    feed,               \* the transport: the messages posted to each channel
    last_message_ids,   \* poll_messages: the watermark of each channel
    channel_last_message_ids, \* the table of that name: the persisted watermarks
    poll,               \* poll_messages: where the loop stands
    handled,            \* identities handle_message has run for
    rerun,              \* handle_message ran twice for one identity
    sent,               \* deliveries made: <<destination, chat_id, message_id>>
    resent,             \* one identity was delivered twice to a destination
    seen                \* texts that reached the duplicate check, and when

pipeline == <<chat_filters, channel_cache, last, feed, last_message_ids,
             channel_last_message_ids, poll,
              handled, rerun, sent, resent, seen>>

vars == <<store, now, settings, q, rule, pipeline>>

---------------------------------------------------------------------------
(* Bounds of the model *)

MaxTokens == 2          \* longest message text drawn word by word
MaxTicks == 2           \* minutes the clock advances during a run
MaxRows == 2            \* SpecStore: rows the driven store grows to
DedupRecentMinutes == 1 \* the configured recency window (DEDUP_RECENT_MINUTES)
StartTs == 600          \* the clock at start-up, in seconds
MaxPosts == 2           \* messages posted over a run of Spec
FetchLimit == 2         \* messages one fetch returns at most (50 in the program)

---------------------------------------------------------------------------
(* Text model *)

\* words of message bodies
BodyWords ==
    {"gm", "ico", "RT", "airdrop", "giveaway", "whitelist", "hello", "!!!",
     "https://t.me/x", "decentralization"}

\* words only produced by the enrichment wrappers and by Scenario A
ExtraWords ==
    {"[img", "txt:", "bonus]", "[ln", "ct:", "ti:", "News]",
     "event!", "and", "follow", "to", "win", "100", "USDT"}

Vocabulary == BodyWords \cup ExtraWords

\* len(word)
WordLen(w) ==
    CASE w \in {"gm", "RT", "to"} -> 2
      [] w \in {"ico", "!!!", "and", "win", "100", "[ln", "ct:", "ti:"} -> 3
      [] w \in {"[img", "txt:", "USDT"} -> 4
      [] w \in {"hello", "News]"} -> 5
      [] w \in {"bonus]", "event!", "follow"} -> 6
      [] w = "airdrop" -> 7
      [] w = "giveaway" -> 8
      [] w = "whitelist" -> 9
      [] w = "https://t.me/x" -> 14
      [] w = "decentralization" -> 16
      [] OTHER -> 1

RECURSIVE SumLen(_)
SumLen(t) == IF t = <<>> THEN 0 ELSE WordLen(Head(t)) + SumLen(Tail(t))

\* len(text) of the blank-joined words
TextLen(t) == IF t = <<>> THEN 0 ELSE SumLen(t) + Len(t) - 1

AnyWordIn(t, S) == \E i \in 1..Len(t) : t[i] \in S

\* rules.py EVENT_TERMS.search(text)
EventWords == {"airdrop", "giveaway"}
\* rules.py ACTION_TERMS.search(text)
ActionWords == {"RT"}
\* rules.py IMPORTANT_LINK_REGEX.search(text)
ImportantLinkWords == {"ico", "airdrop", "whitelist", "event!"}

HasEvent(t) == AnyWordIn(t, EventWords)
HasAction(t) == AnyWordIn(t, ActionWords)
HasImportantLink(t) == AnyWordIn(t, ImportantLinkWords)

RECURSIVE SeqsUpTo(_, _)
SeqsUpTo(S, n) ==
    IF n = 0 THEN {<<>>}
    ELSE LET shorter == SeqsUpTo(S, n - 1)
         IN  shorter \cup {Append(s, w) : s \in shorter, w \in S}

ScenarioA == <<"airdrop", "event!", "RT", "and", "follow", "to", "win", "100", "USDT">>
LongPlain == <<"decentralization", "decentralization">>

\* non-empty message texts
Texts == (SeqsUpTo(BodyWords, MaxTokens) \ {<<>>}) \cup {ScenarioA, LongPlain}

---------------------------------------------------------------------------
(* app/rules.py *)

Tiers == {"low", "medium", "high"}
\* the model's importance is any string the classification returned
RawTiers == Tiers \cup {"urgent"}

\* importance_order.get(x, 0)
ImportanceOrder(x) ==
    CASE x = "low" -> 0 [] x = "medium" -> 1 [] x = "high" -> 2 [] OTHER -> 0

\* inv = {v: k for k, v in importance_order.items()}
TierOfOrder(n) ==
    CASE n = 0 -> "low" [] n = 1 -> "medium" [] OTHER -> "high"

Max(a, b) == IF a >= b THEN a ELSE b

\* mutant: the link branch is lost, the event/action chain decides alone
BoostNoLinkBranch(text, current_importance) ==
    LET cur == ImportanceOrder(current_importance)
        new == IF HasEvent(text) /\ HasAction(text) THEN Max(cur, 2)
               ELSE IF HasEvent(text) THEN Max(cur, 1)
               ELSE cur
    IN  [importance |-> TierOfOrder(new),
         extra_categories |-> (IF HasEvent(text) THEN <<"event">> ELSE <<>>)
                              \o (IF HasImportantLink(text) THEN <<"important_link">> ELSE <<>>),
         extra_tags |-> (IF HasEvent(text) THEN <<"giveaway">> ELSE <<>>)
                        \o (IF HasImportantLink(text) THEN <<"form_event">> ELSE <<>>)]

\* mutant: the boost assigns the rule's tier instead of taking the maximum
BoostAssigns(text, current_importance) ==
    LET cur == ImportanceOrder(current_importance)
        new == IF HasImportantLink(text) THEN 2
               ELSE IF HasEvent(text) /\ HasAction(text) THEN 2
               ELSE IF HasEvent(text) THEN 1
               ELSE cur
    IN  [importance |-> TierOfOrder(new),
         extra_categories |-> (IF HasEvent(text) THEN <<"event">> ELSE <<>>)
                              \o (IF HasImportantLink(text) THEN <<"important_link">> ELSE <<>>),
         extra_tags |-> (IF HasEvent(text) THEN <<"giveaway">> ELSE <<>>)
                        \o (IF HasImportantLink(text) THEN <<"form_event">> ELSE <<>>)]

\* mutant: event vocabulary alone is boosted like event with action
BoostEventAloneStrong(text, current_importance) ==
    LET cur == ImportanceOrder(current_importance)
        new == IF HasImportantLink(text) THEN Max(cur, 2)
               ELSE IF HasEvent(text) THEN Max(cur, 2)
               ELSE cur
    IN  [importance |-> TierOfOrder(new),
         extra_categories |-> (IF HasEvent(text) THEN <<"event">> ELSE <<>>)
                              \o (IF HasImportantLink(text) THEN <<"important_link">> ELSE <<>>),
         extra_tags |-> (IF HasEvent(text) THEN <<"giveaway">> ELSE <<>>)
                        \o (IF HasImportantLink(text) THEN <<"form_event">> ELSE <<>>)]

\* boost_importance_for_events(text, current_importance)
BoostImportanceForEvents(text, current_importance) ==
    LET cur == ImportanceOrder(current_importance)
        new == IF HasImportantLink(text) THEN Max(cur, 2)
               ELSE IF HasEvent(text) /\ HasAction(text) THEN Max(cur, 2)
               ELSE IF HasEvent(text) THEN Max(cur, 1)
               ELSE cur
    IN  [importance |-> TierOfOrder(new),
         extra_categories |-> (IF HasEvent(text) THEN <<"event">> ELSE <<>>)
                              \o (IF HasImportantLink(text) THEN <<"important_link">> ELSE <<>>),
         extra_tags |-> (IF HasEvent(text) THEN <<"giveaway">> ELSE <<>>)
                        \o (IF HasImportantLink(text) THEN <<"form_event">> ELSE <<>>)]

NoBoost == [importance |-> "", extra_categories |-> <<>>, extra_tags |-> <<>>]

---------------------------------------------------------------------------
(* app/storage.py: the messages table *)

NULL == "NULL"              \* None bound to a TEXT column
NullList == <<"NULL">>      \* None bound to a column the model keeps as a list
EmptyJson == [json |-> <<>>]    \* the text '[]'

\* json.dumps / json.loads of an embedding vector
JsonDumps(v) == [json |-> v]
JsonLoads(j) == j.json

\* hashlib.md5(text.encode('utf-8')).hexdigest(); '' is no digest
Md5(t) == <<"md5">> \o t
EmptyHash == <<>>

NoLink == [base |-> "", username |-> "", internal_id |-> 0, message_id |-> 0]
NullLink == [base |-> NULL, username |-> "", internal_id |-> 0, message_id |-> 0]

\* columns declared NOT NULL by CREATE TABLE messages that insert_message binds
NotNullColumns ==
    {"chat_id", "message_id", "date_ts", "text", "embedding", "text_hash",
     "importance", "categories", "tags", "summary", "original_link"}

IsNullValue(col, row) ==
    CASE col = "importance" -> row.importance = NULL
      [] col = "summary" -> row.summary = NULL
      [] col = "categories" -> row.categories = NullList
      [] col = "tags" -> row.tags = NullList
      [] col = "original_link" -> row.original_link = NullLink
      [] OTHER -> FALSE

KeyExists(st, chat_id, message_id) ==
    \E r \in st : r.chat_id = chat_id /\ r.message_id = message_id

\* mutant: only the UNIQUE conflict is ignored, a NULL is stored as given
InsertIgnoringOnlyUnique(st, row) ==
    IF KeyExists(st, row.chat_id, row.message_id) THEN st ELSE st \cup {row}

\* INSERT OR IGNORE INTO messages: a row violating NOT NULL or UNIQUE is skipped
InsertOrIgnore(st, row) ==
    IF \E col \in NotNullColumns : IsNullValue(col, row) THEN st
    ELSE IF KeyExists(st, row.chat_id, row.message_id) THEN st
    ELSE st \cup {row}

\* the row insert_message binds
MessageRow(chat_id, message_id, date_ts, text, embedding_value, text_hash, importance, categories, tags, summary, original_link) ==
    [chat_id |-> chat_id, message_id |-> message_id, date_ts |-> date_ts,
     text |-> text, embedding |-> embedding_value, text_hash |-> text_hash,
     importance |-> importance, categories |-> categories, tags |-> tags,
     summary |-> summary, original_link |-> original_link]

\* SQLiteStore.insert_message
InsertMessage(st, row) == InsertOrIgnore(st, row)

\* the row mark_message_processed inserts
MarkedRow(chat_id, message_id) ==
    MessageRow(chat_id, message_id, 0, <<>>, EmptyJson, EmptyHash,
               "low", <<>>, <<>>, "", NoLink)

\* mutant: marking writes nothing
MarkNothing(st, chat_id, message_id) == st

\* mutant: marking replaces the record the key already has
MarkOrReplace(st, chat_id, message_id) ==
    {r \in st : ~(r.chat_id = chat_id /\ r.message_id = message_id)}
        \cup {MarkedRow(chat_id, message_id)}

\* SQLiteStore.mark_message_processed
MarkMessageProcessed(st, chat_id, message_id) ==
    IF KeyExists(st, chat_id, message_id) THEN st
    ELSE st \cup {MarkedRow(chat_id, message_id)}

\* SQLiteStore.is_message_processed
IsMessageProcessed(st, chat_id, message_id) ==
    Cardinality({r \in st : r.chat_id = chat_id /\ r.message_id = message_id}) > 0

\* SQLiteStore.update_analysis
UpdateAnalysis(st, chat_id, message_id, importance, categories, tags, summary, original_link) ==
    {IF r.chat_id = chat_id /\ r.message_id = message_id
     THEN [r EXCEPT !.importance = importance, !.categories = categories,
                    !.tags = tags, !.summary = summary,
                    !.original_link = original_link]
     ELSE r : r \in st}

NoIdentity == <<0, 0>>

\* mutant: the hash lookup ignores date_ts
ExactDuplicatesAnyAge(st, text_hash, since_ts) ==
    LET hits == {r \in st : r.text_hash = text_hash}
    IN  {<<r.chat_id, r.message_id>> :
            r \in {h \in hits : \A o \in hits : o.date_ts <= h.date_ts}}

\* SQLiteStore.find_exact_duplicate: the rows ORDER BY date_ts DESC LIMIT 1 may
\* return (empty: the query returns None)
FindExactDuplicate(st, text_hash, since_ts) ==
    LET hits == {r \in st : r.date_ts >= since_ts /\ r.text_hash = text_hash}
    IN  {<<r.chat_id, r.message_id>> :
            r \in {h \in hits : \A o \in hits : o.date_ts <= h.date_ts}}

---------------------------------------------------------------------------
(* app/embedding_client.py: cosine similarity, in hundredths *)

Vectors == {<<1, 0>>, <<0, 1>>, <<3, 4>>}

Dot(a, b) == a[1] * b[1] + a[2] * b[2]
\* np.linalg.norm; the model's vectors have integral norms
Norm(a) == CHOOSE n \in 0..(Dot(a, a)) : n * n = Dot(a, a)

\* UpstageEmbeddingClient.cosine_similarity
CosineSimilarity(a, b) ==
    IF Norm(a) = 0 \/ Norm(b) = 0 THEN 0
    ELSE (100 * Dot(a, b)) \div (Norm(a) * Norm(b))

\* LIMIT 1000 of find_recent_similar
ScanLimit == 1000

\* the orders in which ORDER BY date_ts DESC may return a set of rows
RECURSIVE DateDescOrders(_)
DateDescOrders(S) ==
    IF S = {} THEN {<<>>}
    ELSE UNION {{<<r>> \o rest : rest \in DateDescOrders(S \ {r})} :
                r \in {h \in S : \A o \in S : o.date_ts <= h.date_ts}}

NoMatch == [found |-> FALSE, chat_id |-> 0, message_id |-> 0, similarity |-> 0]

\* the loop of find_recent_similar over rows[i..], carrying best and best_similarity
RECURSIVE ScanRows(_, _, _, _, _)
ScanRows(rows, i, current, threshold, best) ==
    IF i > Len(rows) THEN best
    ELSE LET similarity == CosineSimilarity(current, JsonLoads(rows[i].embedding))
         IN  IF similarity >= threshold /\ similarity > best.similarity
             THEN ScanRows(rows, i + 1, current, threshold,
                           [found |-> TRUE, chat_id |-> rows[i].chat_id,
                            message_id |-> rows[i].message_id,
                            similarity |-> similarity])
             ELSE ScanRows(rows, i + 1, current, threshold, best)

\* the rows the SELECT of find_recent_similar may return, in order
SimilarCandidates(st, since_ts) ==
    LET hits == {r \in st : r.date_ts >= since_ts /\ r.embedding # EmptyJson}
    IN  {SubSeq(o, 1, IF Len(o) <= ScanLimit THEN Len(o) ELSE ScanLimit) :
            o \in DateDescOrders(hits)}

\* SQLiteStore.find_recent_similar: the results it may return
FindRecentSimilar(st, embedding_value, since_ts, similarity_threshold) ==
    {ScanRows(rows, 1, JsonLoads(embedding_value), similarity_threshold, NoMatch) :
        rows \in SimilarCandidates(st, since_ts)}

---------------------------------------------------------------------------
(* app/run.py handle_message: the duplicate check (lines 673-697) *)

SinceTs(now_ts, cfg) == now_ts - cfg.dedup_recent_minutes * 60

\* mutant: a message without a vector is matched against the stored vectors
DedupVerdictsScanAlways(st, now_ts, cfg, text_hash, embedding_json) ==
    LET since_ts == SinceTs(now_ts, cfg)
    IN  IF FindExactDuplicate(st, text_hash, since_ts) # {} THEN {"exact_duplicate"}
        ELSE IF embedding_json # EmptyJson
        THEN {IF similar.found THEN "similar_duplicate" ELSE "fresh" :
                similar \in FindRecentSimilar(st, embedding_json, since_ts,
                                              cfg.dedup_similarity_threshold)}
        ELSE IF SimilarCandidates(st, since_ts) # {<<>>}
        THEN {"similar_duplicate"}
        ELSE {"fresh"}

\* the verdicts the duplicate check may reach for a hash and an embedding text
DedupVerdicts(st, now_ts, cfg, text_hash, embedding_json) ==
    LET since_ts == SinceTs(now_ts, cfg)
    IN  IF FindExactDuplicate(st, text_hash, since_ts) # {} THEN {"exact_duplicate"}
        ELSE IF embedding_json # EmptyJson
        THEN {IF similar.found THEN "similar_duplicate" ELSE "fresh" :
                similar \in FindRecentSimilar(st, embedding_json, since_ts,
                                              cfg.dedup_similarity_threshold)}
        ELSE {"fresh"}

---------------------------------------------------------------------------
(* Channels and their metadata (app/run.py get_channel_meta,               *)
(* app/telegram_client.py iter_channel_meta)                               *)

\* peer ids of the channels of the model; 0 stands for None
Channels == {-1001, -1002, -1003}
NoChannel == 0

\* entity.username of a channel; "" stands for None (a private channel)
Username(c) ==
    CASE c = -1001 -> "alpha" [] c = -1003 -> "omega" [] OTHER -> ""

\* int(str(abs(peer_id))[3:]) for a peer id whose digits start with 100
InternalId(c) == (0 - c) - 1000

\* states of an entry of channel_cache: absent, built from the entity, or the
\* default metadata stored after get_entity failed
CacheStates == {"absent", "known", "unknown"}

\* the metadata a cache entry holds
MetaOf(cache, c) ==
    IF cache[c] = "known"
    THEN [username |-> Username(c), is_public |-> Username(c) # "",
          internal_id |-> IF Username(c) # "" THEN 0 ELSE InternalId(c)]
    ELSE [username |-> "", is_public |-> FALSE, internal_id |-> 0]

\* get_channel_meta(chat_id): the cache after the call
GetChannelMeta(cache, c, entity_ok) ==
    IF cache[c] # "absent" THEN cache
    ELSE [cache EXCEPT ![c] = IF entity_ok THEN "known" ELSE "unknown"]

---------------------------------------------------------------------------
(* app/formatter.py *)

\* build_original_link
BuildOriginalLink(chat_id, message_id, is_public, username, internal_id) ==
    IF is_public /\ username # ""
    THEN [base |-> "https://t.me", username |-> username, internal_id |-> 0,
          message_id |-> message_id]
    ELSE IF internal_id # 0
    THEN [base |-> "https://t.me/c", username |-> "", internal_id |-> internal_id,
          message_id |-> message_id]
    ELSE NoLink

\* the parameters format_html declares
FormatHtmlParameters ==
    {"source_title", "summary", "importance", "categories", "tags",
     "money_making_info", "action_guide", "original_link", "image_content",
     "link_content", "forward_info", "original_snippet", "extracted_links"}

\* the keyword arguments handle_message passes to format_html
FormatHtmlKeywords ==
    {"source_title", "summary", "importance", "categories", "tags",
     "money_making_info", "action_guide", "event_products", "original_link",
     "image_content", "link_content", "forward_info", "original_snippet",
     "extracted_links"}

\* the call format_html(**keywords) raises TypeError on an undeclared keyword
FormatHtmlRaises == ~(FormatHtmlKeywords \subseteq FormatHtmlParameters)

---------------------------------------------------------------------------
(* app/run.py handle_message: admission *)

\* texts one of meaningless_patterns matches: a single word of punctuation
\* only, or of one to three letters and digits
MeaninglessWords == {"gm", "ico", "RT", "!!!", "and", "win", "100", "to"}
IsMeaningless(t) == Len(t) = 1 /\ t[1] \in MeaninglessWords

\* any(keyword in text.lower() for keyword in important_keywords)
KeywordWords == {"ico", "airdrop", "whitelist"}
HasKeyword(t) == AnyWordIn(t, KeywordWords)

\* link_processor.extract_links_from_text finds a link
UrlWords == {"https://t.me/x"}
HasUrl(t) == AnyWordIn(t, UrlWords)

\* summaries of the model; the second matches meaningless_summary_patterns
SummaryOk == "summary"
SummaryInsufficient == "insufficient"
IsMeaninglessSummary(summary) == summary = SummaryInsufficient

\* len(text.strip()) > 30
MinInformativeLength == 30

\* mutant: the two vetoes are checked before the overrides, which then win
ShouldForwardOverridesLast(text, importance, threshold, has_media, link_content, summary) ==
    LET vetoed == IsMeaningless(text) \/ IsMeaninglessSummary(summary)
        s0 == (~vetoed) /\ ImportanceOrder(importance) >= ImportanceOrder(threshold)
        s1 == s0 \/ (TextLen(text) > MinInformativeLength /\ ~IsMeaningless(text))
        s2 == s1 \/ HasKeyword(text)
    IN  s2 \/ has_media \/ link_content

\* mutant: the threshold alone admits
ShouldForwardThresholdOnly(text, importance, threshold, has_media, link_content, summary) ==
    /\ ImportanceOrder(importance) >= ImportanceOrder(threshold)
    /\ ~IsMeaningless(text)
    /\ ~IsMeaninglessSummary(summary)

\* should_forward as lines 816-878 leave it
ShouldForward(text, importance, threshold, has_media, link_content, summary) ==
    LET s0 == ImportanceOrder(importance) >= ImportanceOrder(threshold)
        s1 == s0 \/ (TextLen(text) > MinInformativeLength /\ ~IsMeaningless(text))
        s2 == s1 \/ HasKeyword(text)
        s3 == s2 \/ has_media \/ link_content
        s4 == IF IsMeaningless(text) THEN FALSE ELSE s3
    IN  IF IsMeaninglessSummary(summary) THEN FALSE ELSE s4

\* the text appended for an image whose OCR found text, and for a fetched link
ImageWrapper == <<"[img", "txt:", "bonus]">>
LinkWrapper == <<"[ln", "ct:", "ti:", "News]">>

RECURSIVE AppendMissing(_, _)
\* for c in extra: if c not in xs: xs.append(c)
AppendMissing(xs, extra) ==
    IF extra = <<>> THEN xs
    ELSE AppendMissing(IF \E i \in 1..Len(xs) : xs[i] = Head(extra)
                       THEN xs ELSE Append(xs, Head(extra)),
                       Tail(extra))

NoVector == <<>>

\* what handle_message leaves behind for one message
BlankOut ==
    [chat_id |-> NoChannel, id |-> 0, outcome |-> "", text |-> <<>>,
     is_forward |-> FALSE, origin_chat |-> NoChannel, origin_msg |-> 0,
     key_chat |-> NoChannel, key_msg |-> 0, verdict |-> "", embedded |-> FALSE,
     classified |-> FALSE, is_coin_related |-> FALSE,
     has_valuable_info |-> FALSE, image_content |-> FALSE,
     raw_importance |-> "", importance |-> "", summary |-> "",
     categories |-> <<>>, tags |-> <<>>, threshold |-> "",
     has_media |-> FALSE, link_content |-> FALSE,
     orig_link |-> NoLink, decision |-> "", delivered |-> {},
     primary_ok |-> FALSE, important_ok |-> FALSE, personal_ok |-> FALSE,
     attempted |-> {}, raised |-> FALSE,
     twin |-> FALSE, failed_twin |-> FALSE, llm_calls |-> <<>>,
     image_reply |-> "", link_reply |-> "", link_retry |-> "",
     embedding_reply |-> "", embedding_retry |-> ""]

Result(st, filters, cache, out) ==
    [store |-> st, chat_filters |-> filters, channel_cache |-> cache, out |-> out]

\* a storage operation raises inside handle_message: the exception leaves
\* the handler, what was done before it stays
StorageFailed(st, filters, cache, out) ==
    Result(st, filters, cache,
           [out EXCEPT !.outcome = "storage_failed", !.raised = TRUE])

InSeq(x, xs) == \E i \in 1..Len(xs) : xs[i] = x

\* mutant: the link is always built from the message as the transport gave it
LinkSourceTransport(m, message_id) ==
    [chat_id |-> m.chat_id, message_id |-> m.id]

\* lines 780-814: the channel and message id the origin link is built from
LinkSource(m, message_id) ==
    IF m.fwd.is_forward /\ m.fwd.chat_id # NoChannel /\ m.fwd.message_id # 0
    THEN [chat_id |-> m.fwd.chat_id, message_id |-> m.fwd.message_id]
    ELSE [chat_id |-> m.chat_id, message_id |-> message_id]

\* mutant: only the relevance flag rejects
VetoedWhenIrrelevant(llm) == ~llm.is_coin_related

\* lines 746-755: the judgment rejects the message
Vetoed(llm) == ~llm.is_coin_related \/ ~llm.has_valuable_info

\* lines 604-625: image_content is set once the image was downloaded
HasImageContent(m) == m.has_media /\ m.image \in {"text", "notext"}

\* lines 959-1010: the deliveries attempted after the primary one succeeded;
\* the personal notification goes out for every dispatched message
SecondaryAttempts(importance) ==
    (IF importance = "high" \/ importance = "medium" THEN {"important"} ELSE {})
    \cup {"personal"}
    \cup (IF importance \in {"medium", "high"} THEN {"important_bot"} ELSE {})

\* whether the delivery to destination d goes through
Succeeds(m, d) ==
    CASE d = "primary" -> m.primary_ok
      [] d = "important" -> m.important_ok
      [] d = "personal" -> m.personal_ok
      [] OTHER -> m.important_bot_ok

\* lines 959-1010: a failed secondary delivery is logged and the next one tried
SecondaryDeliveries(m, importance) ==
    {d \in SecondaryAttempts(importance) : Succeeds(m, d)}

\* lines 741-1085: classification, boost, link, threshold, dispatch
Classified(st, filters, cache, cfg, m, before, text, message_id, has_link_content) ==
    LET o == [before EXCEPT !.llm_calls = m.llm.calls] IN
    IF m.llm.raises THEN Result(st, filters, cache, [o EXCEPT !.outcome = "llm_failed"])
    ELSE IF Vetoed(m.llm)
    THEN Result(st, filters, cache,
                [o EXCEPT !.outcome = IF ~m.llm.is_coin_related
                                      THEN "not_relevant" ELSE "no_value",
                          !.classified = TRUE,
                          !.raw_importance = m.llm.importance,
                          !.is_coin_related = m.llm.is_coin_related,
                          !.has_valuable_info = m.llm.has_valuable_info])
    ELSE
    LET boost == BoostImportanceForEvents(text, m.llm.importance)
        categories == AppendMissing(m.llm.categories, boost.extra_categories)
        tags == AppendMissing(m.llm.tags, boost.extra_tags)
        importance == boost.importance
        source == LinkSource(m, message_id)
        cache2 == GetChannelMeta(cache, source.chat_id, m.entity_ok)
        meta == MetaOf(cache2, source.chat_id)
        orig_link == BuildOriginalLink(source.chat_id, source.message_id,
                        meta.is_public, meta.username, meta.internal_id)
        should_forward == ShouldForward(text, importance, cfg.important_threshold,
                                        m.has_media, has_link_content,
                                        m.llm.summary)
        o2 == [o EXCEPT !.raw_importance = m.llm.importance,
                        !.classified = TRUE,
                        !.is_coin_related = m.llm.is_coin_related,
                        !.has_valuable_info = m.llm.has_valuable_info,
                        !.importance = importance, !.summary = m.llm.summary,
                        !.categories = categories, !.tags = tags,
                        !.orig_link = orig_link,
                        !.decision = IF should_forward THEN "admit" ELSE "suppress"]
        updated == UpdateAnalysis(st, m.chat_id, message_id, importance,
                                  categories, tags, m.llm.summary, orig_link)
    IN  IF ~should_forward /\ m.storage_fault = "update"
        THEN StorageFailed(st, filters, cache2, o2)
        ELSE IF ~should_forward
        THEN Result(updated, filters, cache2, [o2 EXCEPT !.outcome = "suppressed"])
        ELSE IF FormatHtmlRaises
        THEN Result(st, filters, cache2,
                    [o2 EXCEPT !.outcome = "format_raised", !.raised = TRUE])
        ELSE IF ~m.primary_ok
        THEN Result(st, filters, cache2,
                    [o2 EXCEPT !.outcome = "primary_failed",
                               !.attempted = {"primary"}])
        ELSE IF m.storage_fault = "update"
        THEN StorageFailed(st, filters, cache2,
                           [o2 EXCEPT !.attempted =
                                         {"primary"} \cup SecondaryAttempts(importance),
                                      !.delivered =
                                         {"primary"}
                                         \cup SecondaryDeliveries(m, importance)])
        ELSE Result(updated, filters, cache2,
                    [o2 EXCEPT !.outcome = "dispatched",
                               !.attempted =
                                  {"primary"} \cup SecondaryAttempts(importance),
                               !.delivered =
                                  {"primary"}
                                  \cup SecondaryDeliveries(m, importance)])

\* get_embedding (embedding_client.py 22-78) and fetch_webpage_content
\* (link_processor.py 38-106) under @retry(stop=stop_after_attempt(3)): the
\* body returns None from its own except clauses, so the decorator never sees
\* an exception and makes no second call. first is what the service does at
\* the first call, later what it would do at the calls after it.
RetriedCatchAll(first, later) == first

\* mutant: a failed image download also ends the enrichment by links
HasLinkContentAfterImage(m) ==
    /\ HasUrl(m.text)
    /\ RetriedCatchAll(m.link, m.link_retry) = "ok"
    /\ ~(m.has_media /\ m.image = "raise")

\* lines 626-646: link content was fetched for a link of the message
HasLinkContent(m) ==
    HasUrl(m.text) /\ RetriedCatchAll(m.link, m.link_retry) = "ok"

\* lines 590-646: the working text after enrichment
WorkingText(m) ==
    LET text1 == IF m.has_media /\ m.image = "text"
                 THEN m.text \o ImageWrapper ELSE m.text
    IN  IF HasLinkContent(m) THEN text1 \o LinkWrapper ELSE text1

\* lines 664-671: json.dumps(embedding) if embedding else "[]"; get_embedding
\* returns None for a text shorter than 3 characters
EmbeddingJson(m) ==
    LET embedding == IF TextLen(WorkingText(m)) < 3 THEN NoVector
                     ELSE IF RetriedCatchAll(m.embedding_reply,
                                             m.embedding_retry) = "ok"
                     THEN m.embedding
                     ELSE NoVector
    IN  IF embedding = NoVector THEN EmptyJson ELSE JsonDumps(embedding)

\* the verdicts the duplicate check can give for a message
VerdictsFor(st, now_ts, cfg, m) ==
    IF m.text = <<>> THEN {"fresh"}
    ELSE DedupVerdicts(st, now_ts, cfg, Md5(WorkingText(m)), EmbeddingJson(m))

\* lines 699-739: the key insert_message is given, also used by update_analysis
PersistenceKey(m) ==
    [chat_id |-> m.chat_id,
     message_id |-> IF m.fwd.is_forward /\ m.fwd.message_id # 0
                    THEN m.fwd.message_id ELSE m.id]

\* lines 590-739: working text, enrichment, fingerprint, duplicate check, insert
Fingerprinted(st, filters, cache, now_ts, cfg, m, o, verdict) ==
    LET text == WorkingText(m)
        embedding_json == EmbeddingJson(m)
        text_hash == Md5(text)
        message_id == PersistenceKey(m).message_id
        o1 == [o EXCEPT !.text = text, !.verdict = verdict, !.key_msg = message_id,
                        !.key_chat = PersistenceKey(m).chat_id,
                        !.image_content = HasImageContent(m),
                        !.embedded = embedding_json # EmptyJson,
                        !.link_content = HasLinkContent(m),
                        !.image_reply = IF m.has_media THEN m.image ELSE "",
                        !.link_reply = IF HasUrl(m.text) THEN m.link ELSE "",
                        !.link_retry = IF HasUrl(m.text) THEN m.link_retry ELSE "",
                        !.embedding_reply = IF TextLen(text) < 3 THEN ""
                                            ELSE m.embedding_reply,
                        !.embedding_retry = IF TextLen(text) < 3 THEN ""
                                            ELSE m.embedding_retry]
        inserted == InsertMessage(st,
                        MessageRow(m.chat_id, message_id, now_ts, text,
                                   embedding_json, text_hash,
                                   NULL, NullList, NullList, NULL, NullLink))
    IN  IF m.text = <<>>
        THEN Result(st, filters, cache, [o EXCEPT !.outcome = "empty_text"])
        ELSE IF m.storage_fault = "lookup"
        THEN StorageFailed(st, filters, cache, o1)
        ELSE IF verdict # "fresh"
        THEN Result(st, filters, cache, [o1 EXCEPT !.outcome = verdict])
        ELSE IF m.storage_fault = "insert"
        THEN StorageFailed(st, filters, cache, o1)
        ELSE Classified(inserted, filters, cache, cfg, m, o1, text, message_id,
                        HasLinkContent(m))

\* lines 536-588: forward provenance and the automatic addition of its origin
Forwarded(st, filters, cache, now_ts, cfg, m, o, verdict) ==
    IF m.fwd.is_forward /\ m.fwd.chat_id # NoChannel
    THEN LET cache1 == GetChannelMeta(GetChannelMeta(cache, m.chat_id, m.entity_ok),
                                      m.fwd.chat_id, m.entity_ok)
             filters1 == IF ~InSeq(m.fwd.chat_id, filters) /\ m.add_ok
                         THEN Append(filters, m.fwd.chat_id) ELSE filters
         IN  Fingerprinted(st, filters1, cache1, now_ts, cfg, m, o, verdict)
    ELSE IF m.fwd.is_forward
    THEN Result(st, filters, cache, [o EXCEPT !.outcome = "forward_without_origin"])
    ELSE Fingerprinted(st, filters, cache, now_ts, cfg, m, o, verdict)

\* handle_message(event) for a message of a channel of chat_filters: lines 398-534
HandleMessage(st, filters, cache, now_ts, cfg, m, verdict) ==
    LET o == [BlankOut EXCEPT !.chat_id = m.chat_id, !.id = m.id,
                              !.is_forward = m.fwd.is_forward,
                              !.origin_chat = m.fwd.chat_id,
                              !.origin_msg = m.fwd.message_id,
                              !.threshold = cfg.important_threshold,
                              !.has_media = m.has_media,
                              !.primary_ok = m.primary_ok,
                              !.important_ok = m.important_ok,
                              !.personal_ok = m.personal_ok]
    IN  IF m.storage_fault = "processed_check"
        THEN StorageFailed(st, filters, cache, o)
        ELSE IF IsMessageProcessed(st, m.chat_id, m.id)
        THEN Result(st, filters, cache, [o EXCEPT !.outcome = "already_processed"])
        ELSE IF (m.is_comment /\ ~m.has_top_thread) \/ m.has_top_thread
        THEN Result(st, filters, cache, [o EXCEPT !.outcome = "thread_message"])
        ELSE IF ~InSeq(m.chat_id, filters)
        THEN Result(st, filters, GetChannelMeta(cache, m.chat_id, m.entity_ok),
                    [o EXCEPT !.outcome = "unmonitored"])
        ELSE IF m.text = <<>> /\ ~m.has_media
        THEN Result(st, filters, cache, [o EXCEPT !.outcome = "empty_message"])
        ELSE Forwarded(st, filters, cache, now_ts, cfg, m, o, verdict)

---------------------------------------------------------------------------
(* The pipeline's state at start-up (app/run.py main)                      *)

\* the channels of SOURCE_CHANNELS at start-up
SourceChannels == <<-1001>>

\* the cache after the source channels' metadata is preloaded
PreloadedCache ==
    [c \in Channels |-> IF InSeq(c, SourceChannels) THEN "known" ELSE "absent"]

NoFeed == [c \in Channels |-> <<>>]
IdlePoll == [phase |-> "idle", idx |-> 0, batch |-> <<>>, latest |-> 0, fetched |-> {}]

NoQuery == [asked |-> FALSE, text_hash |-> EmptyHash, embedding |-> EmptyJson,
            verdict |-> ""]
NoRule == [text |-> <<>>, tier |-> "", done |-> FALSE, out |-> NoBoost]

IdlePipeline ==
    /\ chat_filters = SourceChannels
    /\ channel_cache = PreloadedCache
    /\ last = BlankOut
    /\ feed = NoFeed
    /\ last_message_ids = [c \in Channels |-> 0]
    /\ channel_last_message_ids = [c \in Channels |-> 0]
    /\ poll = IdlePoll
    /\ handled = {}
    /\ rerun = FALSE
    /\ sent = {}
    /\ resent = FALSE
    /\ seen = {}

\* app/llm.py line 91: stop_after_attempt(3)
MaxAttempts == 3

\* what the completion service does when it is called: it answers with a
\* JSON object, answers with text json.loads rejects, or the call fails
ReplyKinds == {"json", "malformed", "unavailable"}

\* mutant: the call is repeated for as long as the service fails
RECURSIVE AnalyzeFromUnbounded(_, _)
AnalyzeFromUnbounded(replies, attempt) ==
    IF replies[attempt] = "json"
    THEN [raises |-> FALSE, calls |-> SubSeq(replies, 1, attempt)]
    ELSE IF attempt >= Len(replies)
    THEN [raises |-> TRUE, calls |-> SubSeq(replies, 1, attempt)]
    ELSE AnalyzeFromUnbounded(replies, attempt + 1)

\* OpenAILLM.analyze under its retry decorator, from the attempt-th call on:
\* replies[i] is what the service does at the i-th call. Any exception of the
\* body, json.loads included, is retried until the attempts are used up.
RECURSIVE AnalyzeFrom(_, _)
AnalyzeFrom(replies, attempt) ==
    IF replies[attempt] = "json"
    THEN [raises |-> FALSE, calls |-> SubSeq(replies, 1, attempt)]
    ELSE IF attempt >= MaxAttempts
    THEN [raises |-> TRUE, calls |-> SubSeq(replies, 1, attempt)]
    ELSE AnalyzeFrom(replies, attempt + 1)

\* the fields of the JSON object the service answers with
Judgment(coin, valuable, importance, summary) ==
    [raises |-> FALSE, calls |-> <<>>,
     is_coin_related |-> coin, has_valuable_info |-> valuable,
     importance |-> importance, summary |-> summary,
     categories |-> <<"news">>, tags |-> <<"Solana">>]

\* app/llm.py lines 108-109: [:3] and [:7]
MaxCategories == 3
MaxTags == 7

FirstN(xs, n) == SubSeq(xs, 1, IF Len(xs) <= n THEN Len(xs) ELSE n)

\* the judgment read from a JSON object that lists categories and tags: the
\* lists are cut to their first entries and otherwise taken as they are
JudgmentListing(categories, tags) ==
    [Judgment(TRUE, TRUE, "low", SummaryOk)
        EXCEPT !.categories = FirstN(categories, MaxCategories),
               !.tags = FirstN(tags, MaxTags)]

\* OpenAILLM.analyze: the judgment or the exception the caller gets, with the
\* calls that were made
Analyze(replies, judgment) ==
    LET run == AnalyzeFrom(replies, 1)
    IN  [judgment EXCEPT !.raises = run.raises, !.calls = run.calls]

\* the service's behaviour over the calls of one analyze
AnsweredAtOnce == <<"json", "json", "json", "json">>
NeverAnswered == <<"unavailable", "unavailable", "unavailable", "unavailable">>

\* the replies of the language model an input carries
LlmRaises ==
    [Analyze(NeverAnswered, Judgment(FALSE, FALSE, "low", SummaryOk))
        EXCEPT !.categories = <<>>, !.tags = <<>>]
LlmSays(coin, valuable, importance, summary) ==
    Analyze(AnsweredAtOnce, Judgment(coin, valuable, importance, summary))

NotForward == [is_forward |-> FALSE, chat_id |-> NoChannel, message_id |-> 0]
ForwardOf(c, i) == [is_forward |-> TRUE, chat_id |-> c, message_id |-> i]

\* a message as the transport hands it over, with the replies the services
\* give while it is handled
Message(text, media, fwd, llm) ==
    [text |-> text, has_media |-> media # "none",
     image |-> CASE media = "image_text" -> "text"
                 [] media = "image_failed" -> "raise"
                 [] OTHER -> "notext",
     link |-> "ok", link_retry |-> "ok",
     is_comment |-> FALSE, has_top_thread |-> FALSE,
     fwd |-> fwd, entity_ok |-> TRUE, add_ok |-> TRUE,
     embedding |-> <<1, 0>>, embedding_reply |-> "ok", embedding_retry |-> "ok",
     llm |-> llm,
     primary_ok |-> TRUE, important_ok |-> TRUE, personal_ok |-> TRUE,
     important_bot_ok |-> TRUE, storage_fault |-> "none"]

At(m, c, i) ==
    [chat_id |-> c, id |-> i] @@ m

---------------------------------------------------------------------------
(* SpecAdmit: handle_message run once, on a fresh store, for a wide input  *)

AdmitChat == SourceChannels[1]
AdmitId == 1
OriginMessageId == 7

AdmitTexts ==
    {<<>>, <<"gm">>, <<"ico">>, <<"hello">>, <<"airdrop">>, <<"giveaway", "RT">>,
     <<"https://t.me/x">>, LongPlain, ScenarioA}

AdmitForwards ==
    {NotForward, ForwardOf(NoChannel, 0), ForwardOf(-1003, 0)}
    \cup {ForwardOf(c, OriginMessageId) : c \in Channels}

AdmitReplies ==
    {LlmRaises, LlmSays(FALSE, TRUE, "high", SummaryOk),
     LlmSays(TRUE, FALSE, "high", SummaryOk),
     LlmSays(TRUE, TRUE, "high", SummaryInsufficient)}
    \cup {LlmSays(TRUE, TRUE, i, SummaryOk) : i \in RawTiers}

InitAdmit ==
    /\ store = {}
    /\ now = StartTs
    /\ settings \in [important_threshold : Tiers,
                     dedup_similarity_threshold : {85},
                     dedup_recent_minutes : {DedupRecentMinutes}]
    /\ q = NoQuery
    /\ rule = NoRule
    /\ IdlePipeline

\* the destination whose delivery fails, if any
DeliveryFailures == {"none", "primary", "important", "personal"}

\* one call of handle_message
HandleOne ==
    /\ last.outcome = ""
    /\ \E t \in AdmitTexts, media \in {"none", "image_text", "image_plain", "image_failed"},
          lk \in {"none", "ok"}, thread \in {"none", "comment", "topic"},
          f \in AdmitForwards, l \in AdmitReplies :
      \E e \in IF f.chat_id = NoChannel THEN {TRUE} ELSE BOOLEAN,
         a \in IF f.chat_id = NoChannel THEN {TRUE} ELSE BOOLEAN,
         p \in IF l.raises \/ Vetoed(l) THEN {"none"} ELSE DeliveryFailures :
        LET m == [At(Message(t, media, f, l), AdmitChat, AdmitId)
                    EXCEPT !.link = lk, !.is_comment = (thread = "comment"),
                           !.has_top_thread = (thread = "topic"),
                           !.entity_ok = e, !.add_ok = a,
                           !.primary_ok = (p # "primary"),
                           !.important_ok = (p # "important"),
                           !.personal_ok = (p # "personal")]
        IN  \E v \in VerdictsFor(store, now, settings, m) :
            LET r == HandleMessage(store, chat_filters, channel_cache, now,
                                   settings, m, v)
            IN
            /\ store' = r.store
            /\ chat_filters' = r.chat_filters
            /\ channel_cache' = r.channel_cache
            /\ last' = r.out
            /\ sent' = {<<d, m.chat_id, m.id>> : d \in r.out.delivered}
            /\ handled' = {<<m.chat_id, m.id>>}
    /\ UNCHANGED <<now, settings, q, rule, feed, last_message_ids,
                   channel_last_message_ids, poll, rerun,
                   resent, seen>>

NextAdmit == HandleOne

SpecAdmit == InitAdmit /\ [][NextAdmit]_vars

---------------------------------------------------------------------------
(* Spec: the polling loop of app/run.py poll_messages driving handle_message *)

\* the channels messages are posted to: the source channel and a channel it
\* forwards from
PostChannels == {-1001, -1002}

Plain(text, llm) == Message(text, "none", NotForward, llm)

\* the messages posted in Spec
MainMessages ==
    {Plain(<<"airdrop">>, LlmSays(TRUE, TRUE, "low", SummaryOk)),
     Plain(<<"airdrop">>, LlmRaises),
     Plain(<<"gm">>, LlmSays(TRUE, TRUE, "high", SummaryOk)),
     Message(<<"airdrop">>, "none", ForwardOf(-1002, 1),
             LlmSays(TRUE, TRUE, "low", SummaryOk)),
     Plain(<<>>, LlmRaises)}

\* a message posted before start-up
Earlier == Plain(<<"airdrop">>, LlmSays(TRUE, TRUE, "low", SummaryOk))

Posted == Len(feed[-1001]) + Len(feed[-1002]) + Len(feed[-1003])

SetMax(S) == CHOOSE x \in S : \A y \in S : y <= x

\* latest_message_id = max(msg.id for msg in messages)
LatestOf(messages) == SetMax({messages[j] : j \in 1..Len(messages)})

RECURSIVE Newest(_, _)
\* the n greatest ids of a set, greatest first: what get_messages returns
Newest(ids, n) ==
    IF ids = {} \/ n = 0 THEN <<>>
    ELSE <<SetMax(ids)>> \o Newest(ids \ {SetMax(ids)}, n - 1)

\* mutant: the latest id is left at its default
LatestIdUnset(posted) == 0

\* lines 1140-1144 and 1194-1198: latest_id, the id of the one message
\* get_messages(chat, limit=1) returns, 0 when the channel has none
LatestId(posted) == Len(posted)

\* lines 1131-1150: at start-up each source channel's watermark is set to the
\* id of its latest message, so messages posted before are not fetched
Init ==
    /\ store = {}
    /\ now = StartTs
    /\ settings = [important_threshold |-> "low", dedup_similarity_threshold |-> 85,
                   dedup_recent_minutes |-> DedupRecentMinutes]
    /\ q = NoQuery
    /\ rule = NoRule
    /\ chat_filters = SourceChannels
    /\ channel_cache = PreloadedCache
    /\ last = BlankOut
    /\ feed \in {NoFeed, [NoFeed EXCEPT ![-1001] = <<Earlier>>]}
    /\ last_message_ids = [c \in Channels |->
                             IF InSeq(c, SourceChannels) THEN LatestId(feed[c])
                             ELSE 0]
    /\ channel_last_message_ids = last_message_ids
    /\ poll = IdlePoll
    /\ handled = {}
    /\ rerun = FALSE
    /\ sent = {}
    /\ resent = FALSE
    /\ seen = {}

\* the transport: a message is posted to a channel
Post ==
    /\ Posted < MaxPosts
    /\ \E c \in PostChannels, m \in MainMessages :
         feed' = [feed EXCEPT ![c] = Append(@, m)]
    /\ UNCHANGED <<store, now, settings, q, rule, chat_filters, channel_cache,
                   last, last_message_ids,
                   channel_last_message_ids, poll, handled, rerun, sent, resent,
                   seen>>

\* the clock advances by a minute
Tick ==
    /\ now < StartTs + 60 * MaxTicks
    /\ now' = now + 60
    /\ UNCHANGED <<store, settings, q, rule, pipeline>>

\* the channels of a list that are not in chat_filters
NewChannels(loaded, filters) ==
    {c \in Channels : InSeq(c, loaded) /\ ~InSeq(c, filters)}

\* lines 1158-1211: a pass of the loop starts with the reload of
\* SOURCE_CHANNELS. The list read is chat_filters or one of the lists of edits,
\* which the operator may have written since the last pass. When it differs,
\* the watermark of each new channel is set to the id of its latest message,
\* unless that raises, and chat_filters becomes the list read.
PollStartUnder(edits) ==
    /\ poll.phase = "idle"
    /\ \E loaded \in {chat_filters} \cup edits, init_ok \in BOOLEAN :
         LET initialised == IF init_ok THEN NewChannels(loaded, chat_filters)
                            ELSE {}
         IN  /\ chat_filters' = loaded
             /\ last_message_ids' =
                    [c \in Channels |-> IF c \in initialised
                                        THEN LatestId(feed[c])
                                        ELSE last_message_ids[c]]
             /\ channel_last_message_ids' =
                    [c \in Channels |-> IF c \in initialised
                                        THEN LatestId(feed[c])
                                        ELSE channel_last_message_ids[c]]
    /\ poll' = [IdlePoll EXCEPT !.phase = "channel", !.idx = 1]
    /\ UNCHANGED <<store, now, settings, q, rule, channel_cache, last, feed,
                   handled, rerun, sent, resent, seen>>

\* a pass starts while nobody edits SOURCE_CHANNELS: every configured channel
\* resolves, so the reloaded list equals chat_filters
PollStart == PollStartUnder({})

\* lines 1211-1230: get_messages(chat, min_id=last_known_id, limit=50); with
\* overlap the transport also hands over the messages of the channel that
\* were handled before
PollFetchUnder(overlaps) ==
    /\ poll.phase = "channel"
    /\ poll.idx <= Len(chat_filters)
    /\ \E overlap \in overlaps :
        LET c == chat_filters[poll.idx]
            min_id == last_message_ids[c]
            messages == Newest({i \in 1..Len(feed[c]) :
                                  i > min_id \/ (overlap /\ <<c, i>> \in handled)},
                               FetchLimit)
        IN  poll' = IF messages = <<>>
                    THEN [poll EXCEPT !.idx = @ + 1]
                    ELSE [poll EXCEPT !.phase = "batch", !.batch = messages,
                                      !.latest = LatestOf(messages),
                                      !.fetched = {messages[j] :
                                                     j \in 1..Len(messages)}]
    /\ UNCHANGED <<store, now, settings, q, rule, chat_filters, channel_cache,
                   last, feed, last_message_ids,
                   channel_last_message_ids, handled, rerun, sent, resent,
                   seen>>

\* the fetch of a transport that may hand handled messages over again
PollFetch == PollFetchUnder(BOOLEAN)

\* the fetch of a transport that keeps to min_id
PollFetchNewer == PollFetchUnder({FALSE})

\* lines 1273-1276: fetching a channel raises; the loop goes on to the next
PollFetchFails ==
    /\ poll.phase = "channel"
    /\ poll.idx <= Len(chat_filters)
    /\ poll' = [poll EXCEPT !.idx = @ + 1]
    /\ UNCHANGED <<store, now, settings, q, rule, chat_filters, channel_cache,
                   last, feed, last_message_ids,
                   channel_last_message_ids, handled, rerun, sent, resent,
                   seen>>

InWindowOf(ts, now_ts) == ts >= SinceTs(now_ts, settings)

\* the storage operation of handle_message that raises, if any
StorageFaults == {"none", "processed_check", "lookup", "insert", "update"}

\* mutant: an exception of the processed check leaves the loop
AfterCheckFailureUncaught(p) == [IdlePoll EXCEPT !.phase = "terminated"]

\* lines 1273-1276: the exception is caught per channel; the rest of the batch
\* is given up and the loop waits and goes on to the next channel
AfterCheckFailure(p) ==
    [p EXCEPT !.phase = "channel", !.idx = @ + 1, !.batch = <<>>,
              !.latest = 0, !.fetched = {}]

\* line 1240: is_message_processed raises for a message of the batch
PollCheckFails ==
    /\ poll.phase = "batch"
    /\ poll.batch # <<>>
    /\ last' = [BlankOut EXCEPT !.chat_id = chat_filters[poll.idx],
                                !.id = Head(poll.batch),
                                !.outcome = "check_failed"]
    /\ poll' = AfterCheckFailure(poll)
    /\ UNCHANGED <<store, now, settings, q, rule, chat_filters, channel_cache,
                   feed, last_message_ids, channel_last_message_ids, handled,
                   rerun, sent, resent, seen>>

\* mutant: handle_message sets the watermark of a channel it adds
HandledMarksSetOnAdd(marks, filters_before, filters_after, posts) ==
    [c \in Channels |->
        IF InSeq(c, filters_after) /\ ~InSeq(c, filters_before)
        THEN LatestId(posts[c]) ELSE marks[c]]

\* the watermarks after handle_message (lines 398-1085) ran for a message:
\* last_message_ids is a local of poll_messages (line 1126) that
\* handle_message never names, and update_channel_last_message_id is called
\* from poll_messages alone (lines 1147, 1203, 1270); the automatic addition
\* of a forward's origin appends to chat_filters and sets no watermark
HandledMarks(marks, filters_before, filters_after, posts) == marks

\* lines 1238-1264: one message of the batch: skipped when already processed,
\* else handled and marked, also when handle_message raised; faults are the
\* storage faults the environment may inject into the call
PollHandleUnder(faults) ==
    /\ poll.phase = "batch"
    /\ poll.batch # <<>>
    /\ LET c == chat_filters[poll.idx]
           i == Head(poll.batch)
       IN  IF IsMessageProcessed(store, c, i)
           THEN /\ last' = [BlankOut EXCEPT !.chat_id = c, !.id = i,
                                            !.outcome = "skipped"]
                /\ UNCHANGED <<store, chat_filters, channel_cache, handled,
                               rerun, sent, resent, seen>>
           ELSE \E sf \in faults :
                \E v \in VerdictsFor(store, now, settings, At(feed[c][i], c, i)) :
                LET m == [At(feed[c][i], c, i) EXCEPT !.storage_fault = sf]
                    r == HandleMessage(store, chat_filters, channel_cache, now,
                                       settings, m, v)
                    reached == r.out.verdict # "" /\ r.out.outcome # "storage_failed"
                    twins == {s \in seen : s.text = r.out.text
                                           /\ InWindowOf(s.ts, now)}
                IN  /\ store' = MarkMessageProcessed(r.store, c, i)
                    /\ chat_filters' = r.chat_filters
                    /\ channel_cache' = r.channel_cache
                    /\ last' = [r.out EXCEPT
                                  !.twin = reached /\ twins # {},
                                  !.failed_twin = reached
                                                  /\ \E s \in twins : s.failed]
                    /\ handled' = handled \cup {<<c, i>>}
                    /\ rerun' = (rerun \/ <<c, i>> \in handled)
                    /\ sent' = sent \cup {<<d, c, i>> : d \in r.out.delivered}
                    /\ resent' = (resent
                                  \/ \E d \in r.out.delivered : <<d, c, i>> \in sent)
                    /\ seen' = IF reached
                               THEN seen \cup {[text |-> r.out.text, ts |-> now,
                                                failed |-> r.out.outcome = "llm_failed"]}
                               ELSE seen
    /\ poll' = [poll EXCEPT !.batch = Tail(@)]
    /\ last_message_ids' = HandledMarks(last_message_ids, chat_filters,
                                        chat_filters', feed)
    /\ channel_last_message_ids' = HandledMarks(channel_last_message_ids,
                                                chat_filters, chat_filters', feed)
    /\ UNCHANGED <<now, settings, q, rule, feed>>

\* the loop body while every storage operation works
PollHandle == PollHandleUnder({"none"})

\* the loop body while a storage operation of handle_message may raise
PollHandleFaulty == PollHandleUnder(StorageFaults)

\* mutant: the watermark is written while messages of the batch remain
LoopExhaustedEarly(batch) == Len(batch) <= 1

\* lines 1238-1264: `for msg in messages` has run through the batch
LoopExhausted(batch) == batch = <<>>

\* lines 1266-1271: after the batch the watermark becomes the batch's greatest
\* id, in memory and, unless the write fails, in channel_last_message_ids
PollFinishUnder(writes) ==
    /\ poll.phase = "batch"
    /\ LoopExhausted(poll.batch)
    /\ last_message_ids' = [last_message_ids EXCEPT
                              ![chat_filters[poll.idx]] = poll.latest]
    /\ \E write_ok \in writes :
         channel_last_message_ids' =
            IF write_ok
            THEN [channel_last_message_ids EXCEPT
                    ![chat_filters[poll.idx]] = poll.latest]
            ELSE channel_last_message_ids
    /\ poll' = [poll EXCEPT !.phase = "channel", !.idx = @ + 1, !.latest = 0,
                            !.batch = <<>>, !.fetched = {}]
    /\ UNCHANGED <<store, now, settings, q, rule, chat_filters, channel_cache,
                   last, feed, handled, rerun, sent, resent, seen>>

\* the end of a batch while the store works
PollFinishBatch == PollFinishUnder({TRUE})

\* the end of a batch while update_channel_last_message_id may fail, which it
\* logs and swallows (storage.py 741-775)
PollFinishFaulty == PollFinishUnder(BOOLEAN)

\* line 1279: every channel of chat_filters was visited; the loop sleeps
PollSleep ==
    /\ poll.phase = "channel"
    /\ poll.idx > Len(chat_filters)
    /\ poll' = IdlePoll
    /\ UNCHANGED <<store, now, settings, q, rule, chat_filters, channel_cache,
                   last, feed, last_message_ids,
                   channel_last_message_ids, handled, rerun, sent, resent,
                   seen>>

Next ==
    \/ Post
    \/ Tick
    \/ PollStart
    \/ PollFetch
    \/ PollFetchFails
    \/ PollHandle
    \/ PollFinishBatch
    \/ PollSleep

Spec == Init /\ [][Next]_vars

---------------------------------------------------------------------------
(* SpecFaults: the polling loop while storage operations may fail *)

\* the messages posted while the store is faulty: one that is admitted and one
\* that is suppressed
FaultMessages ==
    {Plain(<<"airdrop">>, LlmSays(TRUE, TRUE, "low", SummaryOk)),
     Plain(<<"gm">>, LlmSays(TRUE, TRUE, "high", SummaryOk))}

\* the transport: a message is posted to the source channel
PostToSource ==
    /\ Posted < MaxPosts
    /\ \E m \in FaultMessages :
         feed' = [feed EXCEPT ![SourceChannels[1]] = Append(@, m)]
    /\ UNCHANGED <<store, now, settings, q, rule, chat_filters, channel_cache,
                   last, last_message_ids, channel_last_message_ids, poll,
                   handled, rerun, sent, resent, seen>>

\* the service's behaviour while one message is classified: what it does at
\* each call, were it called that often
ReplyScripts ==
    {AnsweredAtOnce, NeverAnswered,
     <<"unavailable", "unavailable", "json", "json">>,
     <<"unavailable", "unavailable", "unavailable", "json">>,
     <<"malformed", "json", "json", "json">>}

\* messages for which the embedding service, or the page of the link, is
\* unavailable at the first call (a timeout or a 5xx) and available after it
FlakyEnrichment ==
    {[Plain(<<"airdrop">>, LlmSays(TRUE, TRUE, "low", SummaryOk))
        EXCEPT !.embedding_reply = "unavailable"],
     [Plain(<<"https://t.me/x">>, LlmSays(TRUE, TRUE, "low", SummaryOk))
        EXCEPT !.link = "unavailable"]}

\* a JSON object listing more categories and tags than are kept
LongListing ==
    JudgmentListing(<<"news", "defi", "nft", "macro">>,
                    <<"t1", "t2", "t3", "t4", "t5", "t6", "t7", "t8">>)

ScriptedMessages ==
    {Plain(<<"airdrop">>, Analyze(script, Judgment(TRUE, TRUE, "low", SummaryOk))) :
        script \in ReplyScripts}
    \cup {Plain(<<"airdrop">>, Analyze(AnsweredAtOnce, LongListing))}
    \cup FlakyEnrichment

\* the transport: a message is posted to the source channel; the completion
\* service will follow one of the scripts when the message is classified
PostScripted ==
    /\ Posted < MaxPosts
    /\ \E m \in ScriptedMessages :
         feed' = [feed EXCEPT ![SourceChannels[1]] = Append(@, m)]
    /\ UNCHANGED <<store, now, settings, q, rule, chat_filters, channel_cache,
                   last, last_message_ids, channel_last_message_ids, poll,
                   handled, rerun, sent, resent, seen>>

NextLlm ==
    \/ PostScripted
    \/ Tick
    \/ PollStart
    \/ PollFetch
    \/ PollFetchFails
    \/ PollHandle
    \/ PollFinishBatch
    \/ PollSleep

\* SpecLlm: the polling loop with a completion service that fails
SpecLlm == Init /\ [][NextLlm]_vars

NextFaults ==
    \/ PostToSource
    \/ Tick
    \/ PollStart
    \/ PollFetch
    \/ PollFetchFails
    \/ PollHandleFaulty
    \/ PollCheckFails
    \/ PollFinishFaulty
    \/ PollSleep

SpecFaults == Init /\ [][NextFaults]_vars

---------------------------------------------------------------------------
(* SpecReload: the polling loop while SOURCE_CHANNELS is edited and more     *)
(* messages accumulate than one fetch returns                               *)

\* the channel the operator adds to and removes from SOURCE_CHANNELS
AddedChannel == CHOOSE c \in PostChannels : c # SourceChannels[1]

\* the lists the operator writes to SOURCE_CHANNELS
EditedLists == {SourceChannels, Append(SourceChannels, AddedChannel)}

\* the messages that may pile up in a channel between two passes
MaxBacklog == FetchLimit + 1

\* the transport: a plain message is posted to a channel, or a forward of a
\* message of the added channel is posted to the source channel
PostBacklog ==
    /\ Posted < MaxBacklog
    /\ \/ \E c \in PostChannels :
            feed' = [feed EXCEPT ![c] = Append(@, Earlier)]
       \/ feed' = [feed EXCEPT ![SourceChannels[1]] =
                      Append(@, Message(<<"airdrop">>, "none",
                                        ForwardOf(AddedChannel, 1),
                                        LlmSays(TRUE, TRUE, "low", SummaryOk)))]
    /\ UNCHANGED <<store, now, settings, q, rule, chat_filters, channel_cache,
                   last, last_message_ids, channel_last_message_ids, poll,
                   handled, rerun, sent, resent, seen>>

\* a pass starts while the operator edits SOURCE_CHANNELS
PollStartReload == PollStartUnder(EditedLists)

NextReload ==
    \/ PostBacklog
    \/ PollStartReload
    \/ PollFetchNewer
    \/ PollFetchFails
    \/ PollHandle
    \/ PollFinishBatch
    \/ PollSleep

SpecReload == Init /\ [][NextReload]_vars

---------------------------------------------------------------------------
(* SpecRestart: the polling loop of a process that is stopped and started    *)
(* again against the same database file                                     *)

\* storage.py 777-792: the watermarks get_all_channel_last_message_ids
\* returns; poll_messages starts from none when it raises (lines 1125-1129)
LoadedWatermarks(load_ok) ==
    IF load_ok THEN channel_last_message_ids ELSE [c \in Channels |-> 0]

\* the process is stopped at any point and started again. SQLiteStore is
\* constructed anew (run.py 138), and _init_db drops the messages table it
\* finds (storage.py 81-91); channel_last_message_ids is kept. poll_messages
\* loads the persisted watermarks and sets the watermark of every channel of
\* chat_filters to the id of its latest message, unless that raises for the
\* channel (lines 1123-1150). chat_filters is rebuilt from SOURCE_CHANNELS, to
\* which add_source_channel wrote every automatic addition.
Restart ==
    /\ store' = {}
    /\ \E load_ok \in BOOLEAN, init_ok \in BOOLEAN :
         LET initialised == {c \in Channels : InSeq(c, chat_filters) /\ init_ok}
         IN  /\ last_message_ids' =
                    [c \in Channels |-> IF c \in initialised
                                        THEN LatestId(feed[c])
                                        ELSE LoadedWatermarks(load_ok)[c]]
             /\ channel_last_message_ids' =
                    [c \in Channels |-> IF c \in initialised
                                        THEN LatestId(feed[c])
                                        ELSE channel_last_message_ids[c]]
    /\ channel_cache' = PreloadedCache
    /\ poll' = IdlePoll
    /\ last' = BlankOut
    /\ UNCHANGED <<now, settings, q, rule, chat_filters, feed, handled, rerun,
                   sent, resent, seen>>

NextRestart ==
    \/ PostToSource
    \/ PollStart
    \/ PollFetchNewer
    \/ PollFetchFails
    \/ PollHandle
    \/ PollFinishFaulty
    \/ PollSleep
    \/ Restart

SpecRestart == Init /\ [][NextRestart]_vars

---------------------------------------------------------------------------
(* SpecStore: the store driven through its interface, with the duplicate    *)
(* check of handle_message made against it                                  *)

StoreChat == SourceChannels[1]
StoreIds == {1, 2}
StoreTexts == {<<"hello">>, <<"airdrop">>}
StoredEmbeddings == {EmptyJson, JsonDumps(<<1, 0>>), JsonDumps(<<3, 4>>)}
ProbeEmbeddings == {EmptyJson} \cup {JsonDumps(v) : v \in Vectors}
\* similarity thresholds, in hundredths
Thresholds == {0, 80}

InitStore ==
    /\ store = {}
    /\ now = StartTs
    /\ settings \in [important_threshold : {"low"},
                     dedup_similarity_threshold : Thresholds,
                     dedup_recent_minutes : {DedupRecentMinutes}]
    /\ q = NoQuery
    /\ rule = NoRule
    /\ IdlePipeline

\* insert_message called with the classification given or left None
StInsertMessage ==
    \E m \in StoreIds, text \in StoreTexts, emb \in StoredEmbeddings,
       classified \in BOOLEAN :
        /\ store' = InsertMessage(store,
                MessageRow(StoreChat, m, now, text, emb, Md5(text),
                           IF classified THEN "low" ELSE NULL,
                           IF classified THEN <<>> ELSE NullList,
                           IF classified THEN <<>> ELSE NullList,
                           IF classified THEN "" ELSE NULL,
                           IF classified THEN NoLink ELSE NullLink))
        /\ Cardinality(store') <= MaxRows
        /\ q' = NoQuery
        /\ UNCHANGED <<now, settings, rule, pipeline>>

StMarkProcessed ==
    \E m \in StoreIds :
        /\ store' = MarkMessageProcessed(store, StoreChat, m)
        /\ Cardinality(store') <= MaxRows
        /\ q' = NoQuery
        /\ UNCHANGED <<now, settings, rule, pipeline>>

StTick ==
    /\ now < StartTs + 60 * MaxTicks
    /\ now' = now + 60
    /\ q' = NoQuery
    /\ UNCHANGED <<store, settings, rule, pipeline>>

StDedupCheck ==
    \E text \in StoreTexts, emb \in ProbeEmbeddings :
      \E v \in DedupVerdicts(store, now, settings, Md5(text), emb) :
        /\ q' = [asked |-> TRUE, text_hash |-> Md5(text), embedding |-> emb,
                 verdict |-> v]
        /\ UNCHANGED <<store, now, settings, rule, pipeline>>

NextStore == StInsertMessage \/ StMarkProcessed \/ StTick \/ StDedupCheck

SpecStore == InitStore /\ [][NextStore]_vars

---------------------------------------------------------------------------
(* SpecRules: boost_importance_for_events applied to one drawn input *)

InitRules ==
    /\ rule \in [text : Texts, tier : RawTiers, done : {FALSE}, out : {NoBoost}]
    /\ store = {}
    /\ now = StartTs
    /\ settings = [important_threshold |-> "low", dedup_similarity_threshold |-> 85,
                   dedup_recent_minutes |-> DedupRecentMinutes]
    /\ q = NoQuery
    /\ IdlePipeline

ApplyBoost ==
    /\ ~rule.done
    /\ rule' = [rule EXCEPT !.done = TRUE,
                            !.out = BoostImportanceForEvents(rule.text, rule.tier)]
    /\ UNCHANGED <<store, now, settings, q, pipeline>>

NextRules == ApplyBoost

SpecRules == InitRules /\ [][NextRules]_vars

---------------------------------------------------------------------------
(* Claims *)

\* C5: boost monotonicity: for every text and every input tier in
\* {low, medium, high} the boosted tier is >= the input tier under
\* low < medium < high.
C5_BoostMonotone ==
    (rule.done /\ rule.tier \in Tiers) =>
        /\ rule.out.importance \in Tiers
        /\ ImportanceOrder(rule.out.importance) >= ImportanceOrder(rule.tier)

\* a high input met by the event-only rule (which by itself asks for medium)
C5_Witness ==
    /\ rule.done
    /\ rule.tier = "high"
    /\ HasEvent(rule.text) /\ ~HasAction(rule.text) /\ ~HasImportantLink(rule.text)
    /\ rule.out.importance = "high"

\* C6: link-pattern force-high: a text containing a high-value link pattern
\* resolves to high, whatever the raw classification tier.
C6_LinkForcesHigh ==
    (rule.done /\ HasImportantLink(rule.text)) => rule.out.importance = "high"

\* a link-pattern text without event vocabulary, classified low
C6_Witness ==
    /\ rule.done
    /\ rule.tier = "low"
    /\ HasImportantLink(rule.text) /\ ~HasEvent(rule.text)
    /\ rule.out.importance = "high"

\* C36: a text with event vocabulary and action vocabulary resolves to high;
\* a text with event vocabulary alone, without action vocabulary and without
\* a high-value link pattern, resolves to the greater of the raw tier and
\* medium; a text no rule matches keeps its raw tier (raw tiers being low,
\* medium and high).
C36_BoostTiers ==
    rule.done =>
        /\ (HasEvent(rule.text) /\ HasAction(rule.text))
              => rule.out.importance = "high"
        /\ (rule.tier \in Tiers /\ HasEvent(rule.text) /\ ~HasAction(rule.text)
             /\ ~HasImportantLink(rule.text))
              => rule.out.importance =
                    TierOfOrder(Max(ImportanceOrder(rule.tier), 1))
        /\ (rule.tier \in Tiers /\ ~HasEvent(rule.text)
             /\ ~HasImportantLink(rule.text))
              => rule.out.importance = rule.tier

\* event vocabulary alone lifts a low raw tier to medium, not further
C36_Witness ==
    /\ rule.done
    /\ rule.tier = "low"
    /\ HasEvent(rule.text) /\ ~HasAction(rule.text) /\ ~HasImportantLink(rule.text)
    /\ rule.out.importance = "medium"

\* the rows the duplicate check may compare against: captured inside the window
InWindow(r) == r.date_ts >= now - DedupRecentMinutes * 60
Comparable(r) == InWindow(r) /\ r.embedding # EmptyJson
SimilarityTo(r) == CosineSimilarity(JsonLoads(q.embedding), JsonLoads(r.embedding))
BestSimilarity ==
    CHOOSE b \in {SimilarityTo(r) : r \in {x \in store : Comparable(x)}} :
        \A r \in {x \in store : Comparable(x)} : SimilarityTo(r) <= b

\* C7: similarity threshold boundary: a message whose best similarity to an
\* in-window stored record is at least the configured threshold (equality
\* included) is a duplicate, one strictly below is not, for any threshold in 0-1.
C7_InclusiveBoundary ==
    (/\ q.asked
     /\ q.embedding # EmptyJson
     /\ q.verdict # "exact_duplicate"
     /\ \E r \in store : Comparable(r))
    => (q.verdict = "similar_duplicate"
            <=> BestSimilarity >= settings.dedup_similarity_threshold)

\* C8: recency window exclusion: a check flags a duplicate only on a record
\* captured at or after now - window; identical content captured earlier
\* does not make a message a duplicate.
C8_WindowExclusion ==
    q.asked =>
        /\ q.verdict = "exact_duplicate" =>
                \E r \in store : InWindow(r) /\ r.text_hash = q.text_hash
        /\ q.verdict = "similar_duplicate" =>
                \E r \in store : Comparable(r) /\ SimilarityTo(r) > 0

\* the same hash and the same vector are stored, captured window + 1 minutes
\* before the check or earlier, and the message is not flagged
C8_Witness ==
    /\ q.asked
    /\ q.embedding # EmptyJson
    /\ q.verdict = "fresh"
    /\ \E r \in store :
        /\ r.text_hash = q.text_hash
        /\ r.embedding = q.embedding
        /\ r.date_ts <= now - (DedupRecentMinutes + 1) * 60

\* C24: a message for which no vector was obtained skips the similarity
\* scan: it is a duplicate exactly when the exact-hash check matches a record
\* of the window; and a stored record without an embedding is never what a
\* similarity scan, for any later vector, returns as its match.
C24_DegradedDedup ==
    /\ (q.asked /\ q.embedding = EmptyJson)
         => /\ q.verdict \in {"fresh", "exact_duplicate"}
            /\ q.verdict = "exact_duplicate"
                 <=> \E r \in store : InWindow(r) /\ r.text_hash = q.text_hash
    /\ \A emb \in ProbeEmbeddings \ {EmptyJson} :
         \A similar \in FindRecentSimilar(store, emb, SinceTs(now, settings),
                                          settings.dedup_similarity_threshold) :
            similar.found
              => \E r \in store : /\ r.chat_id = similar.chat_id
                                  /\ r.message_id = similar.message_id
                                  /\ r.embedding # EmptyJson

\* a message without a vector is fresh although the window holds a record
\* with a vector and a record without one, neither with its hash
C24_Witness ==
    /\ q.asked
    /\ q.embedding = EmptyJson
    /\ q.verdict = "fresh"
    /\ \E r \in store : InWindow(r) /\ r.embedding # EmptyJson
    /\ \E r \in store : InWindow(r) /\ r.embedding = EmptyJson

\* C35: find_recent_similar returns, among the records of the window that
\* carry an embedding, one whose similarity to the given vector is the
\* highest, provided it is at or above the threshold; it returns nothing
\* exactly when no such record reaches the threshold; and among the records
\* with the highest similarity it returns a most recently captured one.
C35_HighestSimilarityWins ==
    \A emb \in ProbeEmbeddings \ {EmptyJson} :
        LET threshold == settings.dedup_similarity_threshold
            Sim(r) == CosineSimilarity(JsonLoads(emb), JsonLoads(r.embedding))
            scanned == {r \in store : /\ r.date_ts >= SinceTs(now, settings)
                                      /\ r.embedding # EmptyJson}
            reaching == {r \in scanned : Sim(r) >= threshold}
        IN  \A similar \in FindRecentSimilar(store, emb, SinceTs(now, settings),
                                             threshold) :
                /\ similar.found <=> reaching # {}
                /\ similar.found =>
                      \E r \in reaching :
                          /\ r.chat_id = similar.chat_id
                          /\ r.message_id = similar.message_id
                          /\ Sim(r) = similar.similarity
                          /\ \A o \in reaching :
                                /\ Sim(o) <= Sim(r)
                                /\ Sim(o) = Sim(r) => o.date_ts <= r.date_ts

\* the row handle_message gives to insert_message: no classification yet
UnclassifiedRow(message_id, text, emb) ==
    MessageRow(StoreChat, message_id, now, text, emb, Md5(text),
               NULL, NullList, NullList, NULL, NullLink)

\* C25: insert_message called with the classification unset creates, when no
\* record has the key, a record carrying the given text, content hash and
\* embedding with the classification fields unset; when a record has the
\* key, it changes nothing.
C25_InsertIfAbsent ==
    \A m \in StoreIds, text \in StoreTexts, emb \in StoredEmbeddings :
        LET after == InsertMessage(store, UnclassifiedRow(m, text, emb))
        IN  IF KeyExists(store, StoreChat, m)
            THEN after = store
            ELSE after = store \cup {UnclassifiedRow(m, text, emb)}

---------------------------------------------------------------------------
(* Admission and dispatch of one message (SpecAdmit) *)

\* C4: a message whose working text matches a meaningless-content pattern, or
\* whose summary says there is nothing to summarize, is suppressed whenever
\* the admission decision is taken, whatever its importance and whichever
\* override would admit it; nothing is delivered for it.
C4_VetoPrecedence ==
    (last.decision # ""
     /\ (IsMeaningless(last.text) \/ IsMeaninglessSummary(last.summary)))
        => /\ last.decision = "suppress"
           /\ last.outcome = "suppressed"
           /\ last.delivered = {}
           /\ sent = {}

\* a meaningless text of high importance, with a keyword and media, suppressed
C4_Witness ==
    /\ last.decision = "suppress"
    /\ IsMeaningless(last.text)
    /\ last.importance = "high"
    /\ HasKeyword(last.text)
    /\ last.has_media
    /\ last.threshold = "low"

\* C9: every admitted message is delivered to the primary destination when
\* the transport accepts it, and to the important destination as well when
\* its effective importance is medium or high.
C9_DispatchRouting ==
    (last.decision = "admit" /\ last.primary_ok)
        => /\ "primary" \in last.delivered
           /\ (last.importance \in {"medium", "high"} /\ last.important_ok)
                 => "important" \in last.delivered

\* the link build_original_link gives for a channel whose metadata is cached
LinkOf(c, message_id) ==
    IF channel_cache[c] # "known" THEN NoLink
    ELSE IF Username(c) # ""
    THEN [base |-> "https://t.me", username |-> Username(c), internal_id |-> 0,
          message_id |-> message_id]
    ELSE [base |-> "https://t.me/c", username |-> "",
          internal_id |-> InternalId(c), message_id |-> message_id]

\* C10: a forward whose origin channel is not monitored is not dropped for
\* that; when it is admitted, its origin link is the link of the origin
\* channel and origin message id (empty when the origin's metadata could not
\* be fetched), never the link of the forwarding channel and its message id.
C10_ForwardOriginLink ==
    (last.is_forward /\ last.origin_chat # NoChannel /\ last.origin_msg # 0
     /\ ~InSeq(last.origin_chat, SourceChannels))
        => /\ last.outcome \notin {"unmonitored", "forward_without_origin"}
           /\ last.decision = "admit"
                => /\ last.orig_link = LinkOf(last.origin_chat, last.origin_msg)
                   /\ last.orig_link # LinkOf(last.chat_id, last.id)

\* an admitted forward of an unmonitored public channel, linked to its origin
C10_Witness ==
    /\ last.is_forward
    /\ last.origin_chat = -1003
    /\ ~InSeq(last.origin_chat, SourceChannels)
    /\ last.decision = "admit"
    /\ last.orig_link = [base |-> "https://t.me", username |-> "omega",
                         internal_id |-> 0, message_id |-> OriginMessageId]

\* C11: for a forward that carries its origin channel and origin message id,
\* the key given to insert_message (and later to update_analysis) is
\* (origin channel, origin message id), and not the channel the message was
\* received in.
C11_ForwardIdentityKey ==
    (last.is_forward /\ last.origin_chat # NoChannel /\ last.origin_msg # 0
     /\ last.verdict = "fresh")
        => /\ last.key_chat = last.origin_chat
           /\ last.key_msg = last.origin_msg

\* C12: a judgment whose relevance flag or value flag is false rejects the
\* message before the threshold and override logic runs: no admission
\* decision is taken and nothing is delivered, whatever the importance tier
\* and whichever of the length, keyword and media/link overrides hold.
C12_ClassificationVeto ==
    (last.classified /\ (~last.is_coin_related \/ ~last.has_valuable_info))
        => /\ last.outcome \in {"not_relevant", "no_value"}
           /\ last.decision = ""
           /\ last.delivered = {}
           /\ sent = {}

\* a relevant message judged worthless is rejected although its tier is high
\* and it carries a keyword and a media attachment
C12_Witness ==
    /\ last.classified
    /\ last.is_coin_related /\ ~last.has_valuable_info
    /\ last.raw_importance = "high"
    /\ HasKeyword(last.text)
    /\ last.has_media
    /\ last.outcome = "no_value"

\* the message was classified and neither the judgment nor the
\* meaningless-text and meaningless-summary checks veto it
PassedClassification ==
    /\ last.classified
    /\ last.is_coin_related /\ last.has_valuable_info
    /\ ~IsMeaningless(last.text)
    /\ ~IsMeaninglessSummary(last.summary)

\* the threshold and the length and keyword overrides, on the working text
ThresholdLengthOrKeyword ==
    \/ ImportanceOrder(last.importance) >= ImportanceOrder(last.threshold)
    \/ TextLen(last.text) > MinInformativeLength
    \/ HasKeyword(last.text)

\* C13 (amended): a classified message that is not vetoed is admitted if and
\* only if its effective importance reaches the threshold tier, or its text
\* is longer than the minimum informative length, or its text contains a
\* high-value keyword, or it has a media attachment (whether or not image
\* enrichment produced anything) or link enrichment content; otherwise it is
\* suppressed.
C13_AdmissionDecision ==
    PassedClassification
        => /\ last.decision = "admit"
                <=> (ThresholdLengthOrKeyword \/ last.has_media
                     \/ last.link_content)
           /\ last.decision # "admit" => last.outcome = "suppressed"

\* C13 as stated: the media override holds only for a message that carries
\* image enrichment content or link enrichment content.
C13_EnrichmentContentOverride ==
    PassedClassification
        => /\ last.decision = "admit"
                <=> (ThresholdLengthOrKeyword \/ last.image_content
                     \/ last.link_content)
           /\ last.decision # "admit" => last.outcome = "suppressed"

\* a short low-importance message without keyword whose image could not be
\* processed is admitted under a high threshold
C13_Witness ==
    /\ PassedClassification
    /\ ~ThresholdLengthOrKeyword
    /\ last.has_media /\ ~last.image_content /\ ~last.link_content
    /\ last.decision = "admit"

\* the records of the store under the key the handled message was given
RecordsOfLast ==
    {r \in store : r.chat_id = last.key_chat /\ r.message_id = last.key_msg}

\* C14: when a message is admitted and the delivery to the primary aggregator
\* fails, no delivery to the important destination or to a personal
\* destination is attempted, its classification is not persisted, and its
\* dedup record, carrying its content hash, stays in the store.
C14_PrimaryFailureAborts ==
    (last.decision = "admit" /\ ~last.primary_ok)
        => /\ last.attempted \subseteq {"primary"}
           /\ last.delivered = {}
           /\ \A r \in RecordsOfLast : r.importance = NULL
           /\ \E r \in RecordsOfLast : r.text_hash = Md5(last.text)

\* C15: when a message is admitted and the primary delivery goes through, a
\* failing important-destination or personal delivery leaves the primary
\* delivery done, every other secondary delivery attempted and the
\* classification persisted on the record of the message.
C15_SecondaryIndependence ==
    (last.decision = "admit" /\ last.primary_ok
     /\ (~last.important_ok \/ ~last.personal_ok))
        => /\ "primary" \in last.delivered
           /\ SecondaryAttempts(last.importance) \subseteq last.attempted
           /\ \E r \in RecordsOfLast : /\ r.importance = last.importance
                                        /\ r.summary = last.summary

\* C16: a personal destination receives an admitted message only when its
\* effective importance is medium or high, and an admitted message of
\* effective importance low whose deliveries all go through is delivered to
\* the primary aggregator and nowhere else.
C16_PersonalOnlyWhenImportant ==
    /\ (last.delivered \cap {"personal", "important_bot"}) # {}
            => last.importance \in {"medium", "high"}
    /\ (last.decision = "admit" /\ last.importance = "low"
        /\ last.primary_ok /\ last.important_ok /\ last.personal_ok)
            => last.delivered = {"primary"}

\* C17: when the evaluation ends in suppressed, nothing is delivered and the
\* classification is on the record stored under the key of the insert.
C17_SuppressedPersisted ==
    last.outcome = "suppressed"
        => /\ last.delivered = {}
           /\ sent = {}
           /\ \E r \in RecordsOfLast : /\ r.importance = last.importance
                                        /\ r.summary = last.summary
                                        /\ r.categories = last.categories
                                        /\ r.tags = last.tags

\* C33: a message is given up as having nothing to process only when it has
\* neither text nor a media attachment; a message with a media attachment
\* and no text goes on to enrichment.
C33_EmptyMessageSkip ==
    last.outcome \in {"empty_message", "empty_text"} => ~last.has_media

\* C32: the steps of the pipeline come in the order duplicate check, persist,
\* classify, decide, deliver, record: the classifier is called only for a
\* message the duplicate check found fresh and whose record is in the store
\* by then, and nothing is delivered for a message that was not classified.
C32_PipelineOrdering ==
    /\ last.llm_calls # <<>> => last.verdict = "fresh"
    /\ last.llm_calls # <<>> => KeyExists(store, last.key_chat, last.key_msg)
    /\ last.delivered # {} => last.classified

\* the outcomes of the exits handle_message has before enrichment
\* C38: the record of a message is created with its classification fields
\* unset and stays so when the classification call fails; once the call has
\* completed, the record carries the classification (update_analysis ran for
\* it); and a second update_analysis for the same identity overwrites the
\* first.
C38_RecordLifecycle ==
    /\ last.outcome = "llm_failed"
          => \E r \in store : /\ r.chat_id = last.key_chat
                              /\ r.message_id = last.key_msg
                              /\ r.importance = NULL
    /\ last.classified
          => \E r \in store : /\ r.chat_id = last.key_chat
                              /\ r.message_id = last.key_msg
                              /\ r.importance \in {last.importance,
                                                   last.raw_importance}
                              /\ r.summary = last.summary
    /\ LET st == {MarkedRow(AdmitChat, AdmitId)}
           once == UpdateAnalysis(st, AdmitChat, AdmitId, "low", <<>>, <<>>,
                                  SummaryOk, NoLink)
           twice == UpdateAnalysis(once, AdmitChat, AdmitId, "high",
                                   <<"news">>, <<>>, SummaryOk, NoLink)
       IN  /\ twice = UpdateAnalysis(st, AdmitChat, AdmitId, "high",
                                     <<"news">>, <<>>, SummaryOk, NoLink)
           /\ twice # once

EntryExits ==
    {"already_processed", "thread_message", "unmonitored", "empty_message",
     "forward_without_origin", "empty_text"}

\* the words of part occur in text, in a row
Contains(text, part) ==
    \E k \in 0..(Len(text) - Len(part)) :
        SubSeq(text, k + 1, k + Len(part)) = part

\* C34: a failing image download or OCR and a failing link fetch are treated
\* as no enrichment: the message still reaches the fingerprint and the
\* duplicate check, without the text of the failed enrichment, and the other
\* enrichment still runs and adds its text.
C34_EnrichmentBestEffort ==
    /\ (last.outcome \notin EntryExits \cup {""}) => last.verdict # ""
    /\ last.image_reply = "raise"
         => /\ last.verdict # ""
            /\ ~last.image_content /\ ~Contains(last.text, ImageWrapper)
            /\ last.link_reply = "ok"
                 => last.link_content /\ Contains(last.text, LinkWrapper)
    /\ last.link_reply \notin {"", "ok"}
         => /\ last.verdict # ""
            /\ ~last.link_content /\ ~Contains(last.text, LinkWrapper)
            /\ last.image_reply = "text"
                 => last.image_content /\ Contains(last.text, ImageWrapper)

\* the image download failed, the link fetch worked: the message was
\* fingerprinted with the link text and classified
C34_Witness ==
    /\ last.image_reply = "raise"
    /\ last.link_reply = "ok"
    /\ last.link_content /\ Contains(last.text, LinkWrapper)
    /\ ~last.image_content
    /\ last.verdict = "fresh"
    /\ last.classified

---------------------------------------------------------------------------
(* The polling loop (Spec) *)

\* C1: once the polling loop has handled a message (channel_id, message_id),
\* the message is marked; handing it to the loop again skips it, and handing
\* it to handle_message again returns at the processed check: handle_message
\* never runs twice for it, nothing is delivered twice, nothing is raised and
\* the store is left as it is.
C1_IdempotentIngestion ==
    /\ ~rerun
    /\ ~resent
    /\ \A k \in handled : IsMessageProcessed(store, k[1], k[2])
    /\ last.outcome = "skipped" => (~last.raised /\ last.delivered = {})
    /\ \A k \in handled : \A m \in MainMessages :
         \A v \in VerdictsFor(store, now, settings, At(m, k[1], k[2])) :
           LET r == HandleMessage(store, chat_filters, channel_cache, now,
                                  settings, At(m, k[1], k[2]), v)
           IN  /\ r.out.outcome = "already_processed"
               /\ r.out.delivered = {}
               /\ ~r.out.raised
               /\ r.store = store

\* a handled message is handed to the loop again and skipped
C1_Witness ==
    /\ last.outcome = "skipped"
    /\ <<last.chat_id, last.id>> \in handled
    /\ last_message_ids[last.chat_id] >= last.id

\* a record with content and a classification, as a complete insert leaves it
ClassifiedRow(chat_id, message_id) ==
    MessageRow(chat_id, message_id, now, <<"airdrop">>, JsonDumps(<<1, 0>>),
               Md5(<<"airdrop">>), "high", <<"news">>, <<>>, SummaryOk, NoLink)

\* C39: after the polling loop has handled a fetched message, at whichever
\* exit handle_message returned or if it raised, the store holds a record
\* under the transport key (channel_id, message_id) of the message; and
\* marking a key that has a record, a marker or a record with content,
\* leaves the store as it is.
C39_MarkedAfterHandling ==
    /\ \A k \in handled : KeyExists(store, k[1], k[2])
    /\ last.outcome \notin {"", "skipped"}
          => KeyExists(store, last.chat_id, last.id)
    /\ \A r \in store :
          MarkMessageProcessed(store, r.chat_id, r.message_id) = store
    /\ \A k \in handled :
          LET st == {r \in store : <<r.chat_id, r.message_id>> # k}
                        \cup {ClassifiedRow(k[1], k[2])}
          IN  MarkMessageProcessed(st, k[1], k[2]) = st

\* handle_message raised for a forwarded message, whose persistence key is
\* not its transport key, and the message is marked under the transport key
C39_Witness ==
    /\ last.raised
    /\ last.is_forward
    /\ <<last.key_chat, last.key_msg>> # <<last.chat_id, last.id>>
    /\ <<last.chat_id, last.id>> \in handled
    /\ KeyExists(store, last.chat_id, last.id)

\* C40: the watermark of a channel, in memory and persisted, is written by
\* the polling loop alone: a step in which a message is processed, that is
\* in which handle_message ran, the store of messages was queried or written,
\* or a message was marked, leaves the watermark of every channel as it was.
C40_WatermarkSingleWriter ==
    [][(last' # last \/ store' # store \/ handled' # handled
        \/ (chat_filters' # chat_filters /\ poll.phase = "batch"))
          => /\ last_message_ids' = last_message_ids
             /\ channel_last_message_ids' = channel_last_message_ids]_vars

\* handle_message added the origin of a forward to chat_filters; the channel
\* has messages and its watermark is still unset
C40_Witness ==
    /\ last.is_forward
    /\ last.origin_chat = AddedChannel
    /\ <<last.chat_id, last.id>> \in handled
    /\ InSeq(AddedChannel, chat_filters)
    /\ feed[AddedChannel] # <<>>
    /\ last_message_ids[AddedChannel] = 0
    /\ channel_last_message_ids[AddedChannel] = 0

\* C2: a message whose working text is identical to that of a message
\* received within the recency window before it is dropped by the exact-hash
\* check and not delivered, whatever became of the earlier message.
C2_ExactDuplicatePrecedence ==
    last.twin => (last.outcome = "exact_duplicate" /\ last.delivered = {})

\* C3: when the classification call fails, the message is delivered nowhere
\* and its record, with its content hash and no classification, is in the
\* store, and a later message of identical text within the recency window is
\* dropped by the exact-hash check.
C3_ScenarioD ==
    /\ last.outcome = "llm_failed"
         => /\ last.delivered = {}
            /\ \E r \in store : /\ r.chat_id = last.chat_id
                                /\ r.message_id = last.key_msg
                                /\ r.text_hash = Md5(last.text)
                                /\ r.importance = NULL
    /\ last.failed_twin => last.outcome = "exact_duplicate"

---------------------------------------------------------------------------
(* The polling loop under storage faults (SpecFaults) *)

\* the positions of a running loop
RunningPhases == {"idle", "channel", "batch"}

\* a step of the loop that takes the next message of the batch
TakesMessage == poll.phase = "batch" /\ poll.batch # <<>> /\ poll' # poll

\* C18: a storage operation that raises while a message is being processed
\* never ends the polling loop. When it raises inside handle_message the
\* message is given up and marked and the loop goes on to the next message of
\* the batch; when the processed check of the loop raises, the loop goes on
\* to the next channel and leaves the watermark as it was.
C18_StorageFailureIsolation ==
    /\ [](poll.phase \in RunningPhases)
    /\ [][(TakesMessage /\ last'.outcome = "storage_failed")
            => /\ poll'.phase = "batch"
               /\ poll'.batch = Tail(poll.batch)
               /\ IsMessageProcessed(store', last'.chat_id, last'.id)
               /\ sent' = sent]_vars
    /\ [][(TakesMessage /\ last'.outcome = "check_failed")
            => /\ poll'.phase = "channel"
               /\ poll'.idx = poll.idx + 1
               /\ last_message_ids' = last_message_ids
               /\ store' = store /\ sent' = sent]_vars

\* the insert or the update raised for a message, which is marked, and the
\* loop finished the pass over the channels
C18_Witness ==
    /\ last.outcome = "storage_failed"
    /\ last.verdict = "fresh"
    /\ IsMessageProcessed(store, last.chat_id, last.id)
    /\ poll.phase = "idle"

\* C19: the messages fetched for a channel are handled in ascending order of
\* message id: whatever remains of a batch is in ascending order.
C19_AscendingOrder ==
    poll.phase = "batch"
        => \A j, k \in 1..Len(poll.batch) :
              j < k => poll.batch[j] < poll.batch[k]

\* C20: a channel's watermark, in memory and persisted, changes only once
\* every message of the fetched batch has been handled or skipped, and then
\* only for the channel of the batch; between two messages of a batch both
\* watermarks keep their value.
C20_WatermarkUpdatePoint ==
    [][(last_message_ids' # last_message_ids
        \/ channel_last_message_ids' # channel_last_message_ids)
          => /\ poll.phase = "batch"
             /\ \A i \in poll.fetched : <<chat_filters[poll.idx], i>> \in handled
             /\ \A c \in Channels \ {chat_filters[poll.idx]} :
                   /\ last_message_ids'[c] = last_message_ids[c]
                   /\ channel_last_message_ids'[c] = channel_last_message_ids[c]]_vars

\* between two messages of a batch: one is handled, one remains, and both
\* watermarks are still below the handled message
C20_Witness ==
    /\ poll.phase = "batch"
    /\ poll.batch # <<>>
    /\ last.id \in poll.fetched
    /\ <<chat_filters[poll.idx], last.id>> \in handled
    /\ last_message_ids[chat_filters[poll.idx]] < last.id
    /\ channel_last_message_ids[chat_filters[poll.idx]] < last.id

---------------------------------------------------------------------------
(* The polling loop with a failing completion service (SpecLlm) *)

\* every call made to the completion service for the last message failed
EveryAttemptFailed ==
    /\ last.llm_calls # <<>>
    /\ \A k \in 1..Len(last.llm_calls) : last.llm_calls[k] # "json"

\* C22: a classification response that cannot be parsed is a hard failure
\* for the message and is not retried: when the first response is malformed
\* the completion service was called exactly once and the message is given up.
C22_MalformedNotRetried ==
    (last.llm_calls # <<>> /\ last.llm_calls[1] = "malformed")
        => /\ Len(last.llm_calls) = 1
           /\ last.outcome = "llm_failed"

\* C31: a transient failure of the embedding call or of the link fetch is
\* retried, up to MaxAttempts attempts in all: when the service is
\* unavailable at the first call and available at the next, the message gets
\* its vector, respectively its link text.
C31_EnrichmentRetried ==
    /\ (last.embedding_reply = "unavailable" /\ last.embedding_retry = "ok")
          => last.embedded
    /\ (last.link_reply = "unavailable" /\ last.link_retry = "ok")
          => last.link_content

NoDuplicates(xs) == \A j, k \in 1..Len(xs) : xs[j] = xs[k] => j = k

\* C37: once a message is classified, also after the categories and tags the
\* matched rule implies were appended, its categories are a duplicate-free
\* list of at most MaxCategories entries and its tags a duplicate-free list of
\* at most MaxTags entries, in what handle_message goes on with and in every
\* record of the store.
C37_ClassificationSizeBounds ==
    /\ last.classified
         => /\ Len(last.categories) <= MaxCategories /\ NoDuplicates(last.categories)
            /\ Len(last.tags) <= MaxTags /\ NoDuplicates(last.tags)
    /\ \A r \in store :
         /\ Len(r.categories) <= MaxCategories
         /\ Len(r.tags) <= MaxTags

\* C23: the completion service is called at most MaxAttempts times for a
\* message; when every one of these calls failed, analyze raises and the
\* message is given up: nothing is delivered or attempted, no classification
\* is persisted, no exception leaves handle_message, and the loop marks the
\* message and goes on to the next message of the batch.
C23_RetryBound ==
    /\ [](Len(last.llm_calls) <= MaxAttempts)
    /\ [](EveryAttemptFailed
            => /\ Len(last.llm_calls) = MaxAttempts
               /\ last.outcome = "llm_failed"
               /\ ~last.raised /\ ~last.classified
               /\ last.delivered = {} /\ last.attempted = {}
               /\ \A r \in store :
                     (r.chat_id = last.key_chat /\ r.message_id = last.key_msg)
                        => r = MarkedRow(last.key_chat, last.key_msg))
    /\ [][(TakesMessage /\ last'.outcome = "llm_failed")
            => /\ poll'.phase = "batch"
               /\ poll'.batch = Tail(poll.batch)
               /\ IsMessageProcessed(store', last'.chat_id, last'.id)
               /\ sent' = sent]_vars

\* a message whose three classification calls failed was given up and marked,
\* and the loop then classified another message of the same batch
C23_Witness ==
    /\ last.classified
    /\ \E i \in 1..Len(feed[SourceChannels[1]]) :
          /\ i # last.id
          /\ feed[SourceChannels[1]][i].llm.raises
          /\ Len(feed[SourceChannels[1]][i].llm.calls) = MaxAttempts
          /\ IsMessageProcessed(store, SourceChannels[1], i)
          /\ i \in poll.fetched /\ last.id \in poll.fetched

---------------------------------------------------------------------------
(* Skipping in the polling loop (Spec) *)

\* C29: a message is skipped as already processed only if that very message,
\* same channel and same transport id, was handled before: a message of a
\* channel counts as processed only when the loop handled it, so the record
\* of a forwarded copy never makes another message of the channel skipped.
C29_SkipSoundness ==
    /\ \A c \in Channels : \A i \in 1..Len(feed[c]) :
          IsMessageProcessed(store, c, i) => <<c, i>> \in handled
    /\ last.outcome = "skipped" => <<last.chat_id, last.id>> \in handled

\* a forward whose origin message id is the transport id of another message
\* of the channel was handled, the other message was handled too, and is
\* skipped when the transport hands it over again
C29_Witness ==
    /\ last.outcome = "skipped"
    /\ <<last.chat_id, last.id>> \in handled
    /\ \E j \in 1..Len(feed[last.chat_id]) :
          /\ j # last.id
          /\ <<last.chat_id, j>> \in handled
          /\ feed[last.chat_id][j].fwd.is_forward
          /\ feed[last.chat_id][j].fwd.message_id = last.id

---------------------------------------------------------------------------
(* Reloads of SOURCE_CHANNELS and backlogs (SpecReload) *)

\* C26: whenever the loop advances the watermark of a channel from w to n,
\* every message of the channel with an id in (w, n] was handed to
\* handle_message or skipped as already processed.
C26_NoGapWatermark ==
    [][\A c \in Channels :
          (poll.phase = "batch" /\ last_message_ids'[c] > last_message_ids[c])
             => \A i \in (last_message_ids[c] + 1)..last_message_ids'[c] :
                   <<c, i>> \in handled \/ IsMessageProcessed(store, c, i)]_vars

\* C28: whenever a channel enters chat_filters during a run, by a reload of
\* SOURCE_CHANNELS or by the automatic addition of the origin of a forward,
\* its watermark is the id of the latest message of the channel from that
\* step on, so that the first poll of the channel fetches nothing older.
C28_NoBackfillOnAddition ==
    [][\A c \in Channels :
          (InSeq(c, chat_filters') /\ ~InSeq(c, chat_filters))
             => last_message_ids'[c] = LatestId(feed[c])]_vars

---------------------------------------------------------------------------
(* Restarts (SpecRestart) *)

\* C21: a record of the messages table, once created, is never deleted: every
\* step, the start of the process included, keeps a record for every key
\* that has one.
C21_UnboundedRetention ==
    [][\A r \in store : KeyExists(store', r.chat_id, r.message_id)]_vars

\* C27: a message that was handled and admitted for dispatch is never handled
\* and admitted for dispatch again, also after a restart whose watermark
\* initialisation failed. (The admission decision of a message is the same
\* each time it is handled.)
C27_NoRedispatchAcrossRestart ==
    [][(/\ TakesMessage
        /\ last'.outcome # "skipped"
        /\ <<last'.chat_id, last'.id>> \in handled)
           => last'.decision # "admit"]_vars

=============================================================================
